---- MODULE Spec2Model ----
(***************************************************************************)
(* ilovetv_cache: the daily scheduler, the refresh-and-retry loop and the  *)
(* fetch-then-rename of src/main.rs, as a state machine.                   *)
(*                                                                         *)
(* One action per await point of the daemon task.  The HTTP file server    *)
(* reads the cache directory between any two actions, so every state of    *)
(* the variable fs is a state a reader can observe.                        *)
(***************************************************************************)
EXTENDS Integers, Sequences, FiniteSets, TLC

\* ------------------------------------------------------------------ bounds
\* Number of distinct bodies the upstream can serve for one resource.
MaxVer == 2
\* Number of chunks the byte stream of one body is delivered in.
BodyChunks == 1
\* Number of refresh cycles (startup + scheduled) explored per behaviour.
MaxCycles == 2
\* Number of renames the storage layer rejects per behaviour.
MaxRejects == 1

\* ---------------------------------------------------------- time of day
\* chrono::NaiveTime: seconds since midnight and nanoseconds of the second.
Time(h, m, sec, nano) == [s |-> h * 3600 + m * 60 + sec, n |-> nano]

NoTime == [s |-> -1, n |-> 0]
NoDuration == [secs |-> -1, nanos |-> 0]

\* NaiveTime ordering (derived Ord on secs, frac).
TimeLT(a, b) == a.s < b.s \/ (a.s = b.s /\ a.n < b.n)

TimeLE(a, b) == a.s < b.s \/ (a.s = b.s /\ a.n <= b.n)

\* NaiveTime - NaiveTime: a chrono::Duration, kept normalised as chrono
\* keeps it (secs is the floor, 0 <= nanos < 10^9).
TimeSub(a, b) ==
    IF a.n >= b.n
    THEN [secs |-> a.s - b.s, nanos |-> a.n - b.n]
    ELSE [secs |-> a.s - b.s - 1, nanos |-> a.n - b.n + 1000000000]

\* Duration::num_seconds: whole seconds, rounded toward zero.
NumSeconds(d) == IF d.secs < 0 /\ d.nanos > 0 THEN d.secs + 1 ELSE d.secs

\* duration + Duration::days(1)
AddDay(d) == [secs |-> d.secs + 86400, nanos |-> d.nanos]

\* Duration::num_nanoseconds().unwrap() % 1_000_000_000: Rust's % keeps the
\* sign of the dividend, so a negative duration gives a value in (-10^9, 0].
NanosRem(d) == IF d.secs < 0 /\ d.nanos > 0 THEN d.nanos - 1000000000 ELSE d.nanos

\* `as u64` of an i64.  A negative value wraps to 2^64 + x, written here as
\* the largest integer TLC represents.  Both branches of ChooseSleep give
\* num_seconds() >= 0, so the wrap never happens in daemonize.
AsU64(x) == IF x >= 0 THEN x ELSE 2147483647

\* `as u32` of an i64 in (-10^9, 10^9): the low 32 bits, i.e. 2^32 + x for a
\* negative x.  2^32 = 4 * 10^9 + 294967296; the result is kept as the pair
\* (hi, lo) with value hi * 10^9 + lo, 0 <= lo < 10^9.
AsU32(x) ==
    IF x >= 0 THEN [hi |-> 0, lo |-> x]
    ELSE IF 294967296 + x >= 0
         THEN [hi |-> 4, lo |-> 294967296 + x]
         ELSE [hi |-> 3, lo |-> 1294967296 + x]

\* std::time::Duration::new(secs, nanos): nanos above 10^9 carry into secs.
StdDurationNew(secs, nanos) == [secs |-> secs + nanos.hi, nanos |-> nanos.lo]

target_time == Time(5, 30, 0, 0)

\* current_time < 19:00:00, the startup catch-up test.
BeforeCutoffAt(t) == TimeLE(t, Time(19, 0, 0, 0))

BeforeCutoff(t) == TimeLT(t, Time(19, 0, 0, 0))

\* The branch of the steady-state loop that picks the chrono duration.
ChooseSleep(duration_till_target) ==
    IF NumSeconds(duration_till_target) >= 0
    THEN duration_till_target
    ELSE AddDay(duration_till_target)

\* The std Duration handed to time::sleep for a clock reading current_time.
SleepDuration(current_time) ==
    LET duration_till_target == TimeSub(target_time, current_time)
        sleep_duration == ChooseSleep(duration_till_target)
    IN StdDurationNew(AsU64(NumSeconds(sleep_duration)),
                      AsU32(NanosRem(sleep_duration)))

\* Readings of the local wall clock (Local::now().time()) the model draws
\* from: both sides of 05:30:00 and of 19:00:00, and the ends of the day.
NowSamples ==
    { Time(0, 0, 0, 0), Time(4, 0, 0, 0), Time(5, 29, 59, 999999999),
      Time(5, 30, 0, 0), Time(5, 30, 0, 500000000), Time(5, 30, 1, 0),
      Time(6, 0, 0, 0), Time(23, 59, 59, 999999999) }

StartSamples ==
    { Time(10, 0, 0, 0), Time(18, 59, 59, 999999999),
      Time(19, 0, 0, 0), Time(20, 0, 0, 0) }

\* ------------------------------------------------------------ resources
\* LinkType::iter() yields the variants in declaration order.
LinkTypesReversed == <<"XmlTv", "M3U">>

LinkTypes == <<"M3U", "XmlTv">>

\* file_name of refresh's match, under SERVE_DIR.
FileName(link_type) == IF link_type = "M3U" THEN "ilovetv.m3u" ELSE "xmltv.xml"

\* format!("{}-temp.{}", beginning, file_ext) of file_name.rsplit_once('.').
TmpFileNameSame(link_type) == FileName(link_type)

TmpFileName(link_type) ==
    IF link_type = "M3U" THEN "ilovetv-temp.m3u" ELSE "xmltv-temp.xml"

Files == { FileName(LinkTypes[i]) : i \in 1..2 } \cup { TmpFileName(LinkTypes[i]) : i \in 1..2 }

\* A file of the cache directory: absent, or present with the chunks written.
Absent == [exists |-> FALSE, data |-> <<>>]
Present(data) == [exists |-> TRUE, data |-> data]

\* The complete body of version v of a resource: BodyChunks chunks.
Body(v) == [i \in 1..BodyChunks |-> v]

NoResp == [ver |-> 0, sent |-> 0]

VARIABLES
    dotenvOk,       \* dotenv::dotenv() found and loaded a .env file
    env,            \* which of M3U, XML_TV the environment defines
    pc,             \* position of the process / daemon task
    exitCode,       \* exit status once pc = "exited", else -1
    server,         \* "off" | "running" | "stopped": the actix HttpServer
    now,            \* current_time of the steady-state loop
    sleep_duration, \* the std Duration handed to time::sleep
    retry,          \* refresh_loop's parameter
    link_idx,       \* position of the for loop in LinkType::iter()
    counter,        \* refresh_loop's counter (0 while the first call runs)
    status,         \* refresh_loop's status: "none" | "ok" | "err"
    saveStatus,     \* refresh's status: result of save_to_file
    resp,           \* the response being streamed: version and chunks sent
    fs,             \* the cache directory: file name -> file
    \* history variables
    startTime,      \* the clock reading of daemonize's first line, kept
                    \* until the first scheduled cycle is entered
    cycles,         \* number of refresh cycles started so far
    slept,          \* the first scheduled sleep has returned
    attempts,       \* fetch attempts of the current resource in this cycle
    fails,          \* ... of which the fetch failed
    succs,          \* ... of which the fetch delivered the whole body
    renames,        \* successful renames of the current resource
    rejects,        \* renames rejected by the storage layer so far
    kind,           \* outcome of the fetch of the current attempt; once
                    \* refresh has returned, only "success" or "fail"
    got,            \* version of the last body fetched whole (0: none)
    order,          \* link types whose retry loop this cycle has entered
    pauses,         \* 30-second pauses begun for the current resource
    pause,          \* seconds of the pause in progress, else 0
    pubBefore       \* published files as they were when the cycle started

vars == <<dotenvOk, env, pc, exitCode, server, now, sleep_duration, retry,
          link_idx, counter, status, saveStatus, resp, fs, startTime, cycles,
          slept, attempts, fails, succs, renames, rejects, kind, got,
          order, pauses, pause, pubBefore>>

config == <<dotenvOk, env>>
sched == <<now, sleep_duration, startTime, slept>>
loopv == <<retry, link_idx, counter, status>>
trace == <<order, pauses, pause>>
hist == <<attempts, fails, succs, renames, rejects, kind, got, pubBefore>>

link_type == LinkTypes[link_idx]

\* link of refresh's match: Some(url) or None.
LinkAlways(lt) == TRUE

Link(lt) == IF lt = "M3U" THEN TRUE ELSE env.XML_TV

\* ILoveTv::new: construct, or exit(0) when $M3U is not in the environment.
NewNoCheck == "ok"

ILoveTvNew == IF env.M3U THEN "ok" ELSE "exit"

Init ==
    /\ dotenvOk \in BOOLEAN
    /\ env \in [M3U : BOOLEAN, XML_TV : BOOLEAN]
    /\ pc = "main"
    /\ exitCode = -1
    /\ server = "off"
    /\ now = NoTime
    /\ sleep_duration = NoDuration
    /\ retry = 0
    /\ link_idx = 1
    /\ counter = 0
    /\ status = "none"
    /\ saveStatus = "none"
    /\ resp = NoResp
    /\ fs = [f \in Files |-> Absent]
    /\ startTime = NoTime
    /\ cycles = 0
    /\ slept = FALSE
    /\ attempts = 0
    /\ fails = 0
    /\ succs = 0
    /\ renames = 0
    /\ rejects = 0
    /\ kind = "none"
    /\ got = 0
    /\ order = <<>>
    /\ pauses = 0
    /\ pause = 0
    /\ pubBefore = [i \in 1..2 |-> Absent]

\* ------------------------------------------------------------------ main
\* dotenv()? fails: main returns Err, exit status 1.
MainDotenvErr ==
    /\ pc = "main"
    /\ ~dotenvOk
    /\ pc' = "exited"
    /\ exitCode' = 1
    /\ UNCHANGED <<config, trace, server, sched, loopv, saveStatus, resp, fs, cycles, hist>>

\* ILoveTv::new finds no $M3U: process::exit(0).
MainNoM3U ==
    /\ pc = "main"
    /\ dotenvOk
    /\ ILoveTvNew = "exit"
    /\ pc' = "exited"
    /\ exitCode' = 0
    /\ UNCHANGED <<config, trace, server, sched, loopv, saveStatus, resp, fs, cycles, hist>>

\* HttpServer::bind(SERVER_ADDR)? fails: main returns Err, exit status 1.
MainBindErr ==
    /\ pc = "main"
    /\ dotenvOk
    /\ ILoveTvNew = "ok"
    /\ pc' = "exited"
    /\ exitCode' = 1
    /\ UNCHANGED <<config, trace, server, sched, loopv, saveStatus, resp, fs, cycles, hist>>

\* bind succeeds; join! starts polling the server and the daemon.
MainJoin ==
    /\ pc = "main"
    /\ dotenvOk
    /\ ILoveTvNew = "ok"
    /\ pc' = "daemonize"
    /\ server' = "running"
    /\ UNCHANGED <<config, trace, exitCode, sched, loopv, saveStatus, resp, fs, cycles, hist>>

\* ------------------------------------------------------------- daemonize
\* The call refresh_loop(r): the for loop starts at the first link type.
EnterRefreshLoop(r) ==
    /\ retry' = r
    /\ link_idx' = 1
    /\ counter' = 0
    /\ status' = "none"
    /\ pc' = "refresh_loop"
    /\ order' = <<>>
    /\ pubBefore' = [i \in 1..2 |-> fs[FileName(LinkTypes[i])]]

\* Entering refresh_loop(r), counted in cycles.
StartCycle(r) ==
    /\ cycles < MaxCycles
    /\ cycles' = cycles + 1
    /\ EnterRefreshLoop(r)

\* First lines of daemonize: read the clock, run the catch-up cycle or not.
Daemonize ==
    /\ pc = "daemonize"
    /\ \E t \in StartSamples :
        /\ startTime' = t
        /\ IF BeforeCutoff(t)
           THEN StartCycle(0)
           ELSE /\ pc' = "loop"
                /\ UNCHANGED <<loopv, cycles, order, pubBefore>>
    /\ UNCHANGED <<config, pauses, pause, exitCode, server, now, sleep_duration, slept,
                   saveStatus, resp, fs, attempts, fails, succs, renames,
                   rejects, kind, got>>

\* Head of the steady-state loop: read the clock, compute the sleep.
ComputeSleep ==
    /\ pc = "loop"
    /\ \E t \in NowSamples :
        /\ now' = t
        /\ sleep_duration' = SleepDuration(t)
    /\ pc' = "sleep"
    /\ UNCHANGED <<config, trace, exitCode, server, startTime, slept, loopv,
                   saveStatus, resp, fs, cycles, hist>>

\* time::sleep(sleep_duration) returns; refresh_loop(10) is entered.
Sleep ==
    /\ pc = "sleep"
    /\ StartCycle(10)
    /\ slept' = TRUE
    /\ now' = NoTime
    /\ sleep_duration' = NoDuration
    /\ startTime' = NoTime
    /\ UNCHANGED <<config, pauses, pause, exitCode, server, saveStatus, resp, fs, attempts,
                   fails, succs, renames, rejects, kind, got>>

\* ---------------------------------------------------------- refresh_loop
\* for link_type in LinkType::iter(): next resource, or the cycle returns.
ForNext ==
    /\ pc = "refresh_loop"
    /\ link_idx <= Len(LinkTypes)
    /\ pc' = "refresh"
    /\ counter' = 0
    /\ status' = "none"
    /\ attempts' = 0
    /\ fails' = 0
    /\ succs' = 0
    /\ renames' = 0
    /\ kind' = "none"
    /\ got' = 0
    /\ order' = Append(order, link_type)
    /\ pauses' = 0
    /\ UNCHANGED <<config, pause, exitCode, server, sched, retry, link_idx,
                   saveStatus, resp, fs, cycles, rejects, pubBefore>>

\* refresh_loop returns into daemonize's loop.
ForEndExit ==
    /\ pc = "refresh_loop"
    /\ link_idx > Len(LinkTypes)
    /\ pc' = "exited"
    /\ exitCode' = 0
    /\ link_idx' = 1
    /\ order' = <<>>
    /\ UNCHANGED <<config, pauses, pause, server, sched, retry, counter, status,
                   saveStatus, resp, fs, cycles, hist>>

ForEnd ==
    /\ pc = "refresh_loop"
    /\ link_idx > Len(LinkTypes)
    /\ pc' = "loop"
    /\ link_idx' = 1
    /\ order' = <<>>
    /\ UNCHANGED <<config, pauses, pause, exitCode, server, sched, retry, counter, status,
                   saveStatus, resp, fs, cycles, hist>>

\* StdDuration::from_secs(30): the pause before retry number counter.
BackoffGrowing(c) == 30 * c

BackoffSecs(c) == 30

\* while status.is_err() && counter <= retry
Continue == status = "err" /\ counter <= retry

\* The retry loop of the resource is over (the while condition is false).
LoopDone == pc = "while" /\ ~Continue

WhileRetry ==
    /\ pc = "while"
    /\ Continue
    /\ pc' = "backoff"
    /\ pauses' = pauses + 1
    /\ pause' = BackoffSecs(counter)
    /\ UNCHANGED <<config, order, exitCode, server, sched, loopv, saveStatus, resp,
                   fs, cycles, hist>>

WhileExitAbort ==
    /\ pc = "while"
    /\ ~Continue
    /\ pc' = "refresh_loop"
    /\ link_idx' = IF status = "err" THEN Len(LinkTypes) + 1 ELSE link_idx + 1
    /\ pubBefore' = [pubBefore EXCEPT ![link_idx] = fs[FileName(link_type)]]
    /\ attempts' = 0
    /\ fails' = 0
    /\ succs' = 0
    /\ renames' = 0
    /\ kind' = "none"
    /\ got' = 0
    /\ pauses' = 0
    /\ UNCHANGED <<config, order, pause, exitCode, server, sched, retry, counter, status,
                   saveStatus, resp, fs, cycles, rejects>>

\* The while loop is left: the for loop goes on to the next link type,
\* whatever status is.
WhileExit ==
    /\ pc = "while"
    /\ ~Continue
    /\ pc' = "refresh_loop"
    /\ link_idx' = link_idx + 1
    /\ pubBefore' = [pubBefore EXCEPT ![link_idx] = fs[FileName(link_type)]]
    /\ attempts' = 0
    /\ fails' = 0
    /\ succs' = 0
    /\ renames' = 0
    /\ kind' = "none"
    /\ got' = 0
    /\ pauses' = 0
    /\ UNCHANGED <<config, order, pause, exitCode, server, sched, retry, counter, status,
                   saveStatus, resp, fs, cycles, rejects>>

\* time::sleep(30 s) returns; refresh is called again.
Backoff ==
    /\ pc = "backoff"
    /\ pc' = "refresh"
    /\ pause' = 0
    /\ UNCHANGED <<config, order, pauses, exitCode, server, sched, loopv, saveStatus, resp,
                   fs, cycles, hist>>

\* --------------------------------------------------------------- refresh
\* The return of refresh into refresh_loop: status is assigned, counter is
\* set to 1 after the first call and incremented after every later one.
Return(result) ==
    /\ status' = result
    /\ kind' = IF kind \in {"none", "success"} THEN kind ELSE "fail"
    /\ counter' = counter + 1
    /\ pc' = "while"
    /\ UNCHANGED <<retry, link_idx>>

\* No link configured for the resource: return Ok(()).
RefreshNone ==
    /\ pc = "refresh"
    /\ ~Link(link_type)
    /\ Return("ok")
    /\ UNCHANGED <<config, trace, exitCode, server, sched, saveStatus, resp, fs,
                   cycles, attempts, fails, succs, renames, rejects, got,
                   pubBefore>>

\* save_to_file returns into refresh; refresh logs an Err and goes on to the
\* rename whatever the result was.
Saved(result, outcome) ==
    /\ saveStatus' = result
    /\ kind' = outcome
    /\ fails' = IF outcome = "success" THEN fails ELSE fails + 1
    /\ succs' = IF outcome = "success" THEN succs + 1 ELSE succs
    /\ got' = IF outcome = "success" THEN resp.ver ELSE got
    /\ resp' = NoResp
    /\ pc' = "rename"
    /\ UNCHANGED <<renames, rejects, pubBefore>>

\* client.get(link).send().await? fails: connection / transport error.
SendErr ==
    /\ pc = "refresh"
    /\ Link(link_type)
    /\ attempts' = attempts + 1
    /\ Saved("err", "transport")
    /\ UNCHANGED <<config, trace, exitCode, server, sched, loopv, fs, cycles>>

\* The response has a non-2xx status.
SendBadStatus ==
    /\ pc = "refresh"
    /\ Link(link_type)
    /\ attempts' = attempts + 1
    /\ Saved("err", "badstatus")
    /\ UNCHANGED <<config, trace, exitCode, server, sched, loopv, fs, cycles>>

\* The response has a 2xx status; its body is some version of the resource.
SendOk ==
    /\ pc = "refresh"
    /\ Link(link_type)
    /\ attempts' = attempts + 1
    /\ \E v \in 1..MaxVer : resp' = [ver |-> v, sent |-> 0]
    /\ kind' = "pending"
    /\ pc' = "create"
    /\ UNCHANGED <<config, trace, exitCode, server, sched, loopv, saveStatus, fs,
                   cycles, fails, succs, renames, rejects, got, pubBefore>>

\* File::create(tmp): creates the file or truncates it to empty.
CreateOk ==
    /\ pc = "create"
    /\ fs' = [fs EXCEPT ![TmpFileName(link_type)] = Present(<<>>)]
    /\ pc' = "stream"
    /\ UNCHANGED <<config, trace, exitCode, server, sched, loopv, saveStatus, resp,
                   cycles, hist>>

CreateErr ==
    /\ pc = "create"
    /\ Saved("err", "io")
    /\ UNCHANGED <<config, trace, exitCode, server, sched, loopv, fs, cycles, attempts>>

\* stream.try_next() yields Ok(Some(item)).
StreamSome ==
    /\ pc = "stream"
    /\ resp.sent < BodyChunks
    /\ pc' = "write"
    /\ UNCHANGED <<config, trace, exitCode, server, sched, loopv, saveStatus, resp,
                   fs, cycles, hist>>

\* stream.try_next() yields Ok(None): the body is complete; Ok(()).
StreamEnd ==
    /\ pc = "stream"
    /\ resp.sent = BodyChunks
    /\ Saved("ok", "success")
    /\ UNCHANGED <<config, trace, exitCode, server, sched, loopv, fs, cycles, attempts>>

\* stream.try_next() yields Err before the end of the body: the pattern
\* Ok(Some(item)) does not match, the while let ends, Ok(()) is returned.
StreamErr ==
    /\ pc = "stream"
    /\ resp.sent < BodyChunks
    /\ Saved("ok", "transport")
    /\ UNCHANGED <<config, trace, exitCode, server, sched, loopv, fs, cycles, attempts>>

\* f.write(&item).await? appends the chunk.
WriteOk ==
    /\ pc = "write"
    /\ fs' = [fs EXCEPT ![TmpFileName(link_type)] =
                            Present(Append(@.data, resp.ver))]
    /\ resp' = [resp EXCEPT !.sent = @ + 1]
    /\ pc' = "stream"
    /\ UNCHANGED <<config, trace, exitCode, server, sched, loopv, saveStatus,
                   cycles, hist>>

WriteErr ==
    /\ pc = "write"
    /\ Saved("err", "io")
    /\ UNCHANGED <<config, trace, exitCode, server, sched, loopv, fs, cycles, attempts>>

\* fs::rename(tmp, published) succeeds: the published name now is the file
\* that was the temporary one.
RenameOk ==
    /\ pc = "rename"
    /\ fs[TmpFileName(link_type)].exists
    /\ fs' = [fs EXCEPT ![FileName(link_type)] = fs[TmpFileName(link_type)],
                        ![TmpFileName(link_type)] = Absent]
    /\ renames' = renames + 1
    /\ saveStatus' = "none"
    /\ Return("ok")
    /\ UNCHANGED <<config, trace, exitCode, server, sched, resp, cycles, attempts,
                   fails, succs, rejects, got, pubBefore>>

\* fs::rename(..)? fails because the temporary file does not exist.
RenameNoEnt ==
    /\ pc = "rename"
    /\ ~fs[TmpFileName(link_type)].exists
    /\ saveStatus' = "none"
    /\ Return("err")
    /\ UNCHANGED <<config, trace, exitCode, server, sched, resp, fs, cycles, attempts,
                   fails, succs, renames, rejects, got, pubBefore>>

\* fs::rename(..)? is rejected by the storage layer.
RenameRejected ==
    /\ pc = "rename"
    /\ fs[TmpFileName(link_type)].exists
    /\ rejects < MaxRejects
    /\ rejects' = rejects + 1
    /\ saveStatus' = "none"
    /\ Return("err")
    /\ UNCHANGED <<config, trace, exitCode, server, sched, resp, fs, cycles, attempts,
                   fails, succs, renames, got, pubBefore>>

Next ==
    \/ MainDotenvErr \/ MainNoM3U \/ MainBindErr \/ MainJoin
    \/ Daemonize \/ ComputeSleep \/ Sleep
    \/ ForNext \/ ForEnd \/ WhileRetry \/ WhileExit \/ Backoff
    \/ RefreshNone \/ SendErr \/ SendBadStatus \/ SendOk
    \/ CreateOk \/ CreateErr
    \/ StreamSome \/ StreamEnd \/ StreamErr
    \/ WriteOk \/ WriteErr
    \/ RenameOk \/ RenameNoEnt \/ RenameRejected

Spec == Init /\ [][Next]_vars

\* The HttpServer future completes (actix stops on SIGINT / SIGTERM or on a
\* fatal error).  join! goes on polling the daemon.
ServerStop ==
    /\ pc \notin {"main", "exited"}
    /\ server = "running"
    /\ server' = "stopped"
    /\ UNCHANGED <<config, trace, pc, exitCode, sched, loopv, saveStatus, resp,
                   fs, cycles, hist>>

NextServer == Next \/ ServerStop

SpecServer == Init /\ [][NextServer]_vars

\* time::sleep returns and refresh_loop(10) is entered, for the cycles after
\* the MaxCycles counted ones: the loop of daemonize has no last iteration.
SleepOn ==
    /\ pc = "sleep"
    /\ cycles = MaxCycles
    /\ EnterRefreshLoop(10)
    /\ slept' = TRUE
    /\ now' = NoTime
    /\ sleep_duration' = NoDuration
    /\ startTime' = NoTime
    /\ UNCHANGED <<config, pauses, pause, exitCode, server, saveStatus, resp, fs,
                   cycles, attempts, fails, succs, renames, rejects, kind, got>>

NextLive == Next \/ SleepOn

\* Every await of the daemon returns (the claim's assumption) and the tokio
\* runtime keeps polling the task: the next step of the process is taken.
SpecLive == Init /\ [][NextLive]_vars /\ WF_vars(NextLive)

TypeOK ==
    /\ pc \in {"main", "exited", "daemonize", "loop", "sleep", "refresh_loop",
               "while", "backoff", "refresh", "create", "stream", "write",
               "rename"}
    /\ status \in {"none", "ok", "err"}
    /\ counter \in 0..11
    /\ attempts \in 0..11
    /\ \A f \in Files : fs[f].exists \/ fs[f] = Absent

\* ================================================================ claims
Resources == 1..Len(LinkTypes)

Published(i) == fs[FileName(LinkTypes[i])]

\* A file that holds the whole body of some version.
Complete(file) == \E v \in 1..MaxVer : file = Present(Body(v))

\* The daemon is inside the retry loop of a resource.
InResource ==
    pc \in {"refresh", "create", "stream", "write", "rename", "while", "backoff"}

\* C1: in every state, each published file is absent or holds the complete
\* body of a fetch; it is never a truncated (empty or partially written) body.
C1_PublishedComplete ==
    \A i \in Resources : Published(i) = Absent \/ Complete(Published(i))

\* C2: when the retry loop of a resource is over and every one of its
\* retry+1 fetch attempts failed, the published file is what it was when the
\* cycle started.
C2_AllFailUnchanged ==
    (LoopDone /\ attempts = retry + 1 /\ succs = 0 /\ fails = attempts)
        => Published(link_idx) = pubBefore[link_idx]

\* C3: when the retry loop of a configured resource is over, (a) it did not
\* stop short of its budget before a fetch succeeded (so the success that
\* follows N <= retry failures is attempted), and (b) after N failures and
\* one final success there were N+1 attempts, one rename, and the published
\* file is the body fetched.
C3_RetryThenSuccess ==
    (LoopDone /\ attempts > 0) =>
        /\ succs = 0 => attempts = retry + 1
        /\ (succs = 1 /\ kind = "success" /\ status = "ok") =>
              /\ attempts = fails + 1
              /\ renames = 1
              /\ Published(link_idx) = Present(Body(got))

\* C4: a published file that holds a fetched body stays in place; a step only
\* ever replaces it by a complete body, never by nothing, an empty or a
\* partial one.
C4_PublishedKept ==
    [][\A i \in Resources :
          Complete(Published(i)) =>
              \/ fs'[FileName(LinkTypes[i])] = Published(i)
              \/ Complete(fs'[FileName(LinkTypes[i])])]_vars

\* C5: a wait computed at exactly 05:30:00 is 24 hours.
C5_ExactTargetWaitsADay ==
    (pc = "sleep" /\ now = Time(5, 30, 0, 0))
        => sleep_duration = [secs |-> 86400, nanos |-> 0]

\* Time from t to the next 05:30:00, for t other than 05:30:00 itself.
WaitUntilNext(t) ==
    LET borrow == IF t.n > 0 THEN 1 ELSE 0
        day == IF t.s < 19800 THEN 0 ELSE 86400
    IN [secs |-> 19800 - t.s - borrow + day,
        nanos |-> IF t.n > 0 THEN 1000000000 - t.n ELSE 0]

\* C6: the duration handed to the sleep is the time from now to the next
\* 05:30 (before 05:30: the difference; after 05:30: the difference plus 24
\* hours), is never negative and never more than 24 hours.
C6_SleepIsTimeToNext ==
    pc = "sleep" =>
        /\ now # Time(5, 30, 0, 0) => sleep_duration = WaitUntilNext(now)
        /\ sleep_duration.secs >= 0
        /\ sleep_duration.secs < 86400
             \/ sleep_duration = [secs |-> 86400, nanos |-> 0]

\* C7: until the first scheduled sleep is over, exactly one cycle, of retry
\* budget 0, has been started if the process started before 19:00:00 and none
\* otherwise; the cycle entered after that sleep has retry budget 10.
C7_StartupCatchUp ==
    /\ [](( pc \notin {"main", "exited", "daemonize"} /\ ~slept) =>
            /\ startTime.s < 19 * 3600 => (cycles = 1 /\ retry = 0)
            /\ startTime.s >= 19 * 3600 => cycles = 0)
    /\ [][(pc = "sleep" /\ ~slept) =>
            (slept' /\ cycles' = cycles + 1 /\ retry' = 10)]_vars

C7_Witness ==
    pc = "sleep" /\ ~slept /\ cycles = 1 /\ startTime = Time(10, 0, 0, 0)

\* C8: the refresh of XmlTv with no XML_TV configured returns Ok at once: no
\* request, no file created or renamed, no retry and no 30-second pause.
C8_NoLinkNoEffect ==
    /\ []((InResource /\ link_idx = 2 /\ ~env.XML_TV) =>
            /\ pc \in {"refresh", "while"}
            /\ attempts = 0 /\ renames = 0
            /\ pc = "while" => (status = "ok" /\ ~Continue))
    /\ [][(pc = "refresh" /\ link_idx = 2 /\ ~env.XML_TV) =>
            (fs' = fs /\ resp' = resp /\ attempts' = attempts
             /\ status' = "ok" /\ pc' = "while")]_vars

C8_Witness ==
    /\ pc = "while" /\ link_idx = 2 /\ ~env.XML_TV /\ status = "ok"
    /\ retry = 10 /\ Published(1).exists

\* C9 as stated: with M3U missing the process exits with status 0 before any
\* cycle, any fetch and before the server runs.
C9_MissingM3UExitsZero ==
    ~env.M3U =>
        /\ pc \in {"main", "exited"}
        /\ cycles = 0 /\ attempts = 0 /\ server = "off"
        /\ pc = "exited" => exitCode = 0

\* C9 amended: with M3U missing the process exits before any cycle, any fetch
\* and before the server runs; the status is 0 when the .env file was loaded
\* and 1 when loading it failed.
C9_MissingM3UExits ==
    ~env.M3U =>
        /\ pc \in {"main", "exited"}
        /\ cycles = 0 /\ attempts = 0 /\ server = "off"
        /\ pc = "exited" => exitCode = (IF dotenvOk THEN 0 ELSE 1)

C9_Witness == pc = "exited" /\ ~env.M3U /\ dotenvOk /\ exitCode = 0

\* C10: the rename is invoked only when the fetch of the same attempt
\* returned success.
C10_RenameOnlyAfterSuccess == pc = "rename" => saveStatus = "ok"

\* C11: a transport error while the body is streamed makes save_to_file
\* return failure, like a connection error before the response.
C11_StreamErrorFails == (pc = "rename" /\ kind = "transport") => saveStatus = "err"

\* C12: a step changes the file at a published name only if it is the rename
\* of that resource's refresh; every fetch step and every step of the other
\* resource's refresh leaves it as it is.
C12_OnlyRenamePublishes ==
    [][\A i \in Resources :
          fs'[FileName(LinkTypes[i])] # Published(i) =>
              (pc = "rename" /\ link_idx = i /\ pc' = "while" /\ status' = "ok")]_vars

C12_Witness ==
    /\ pc = "stream" /\ link_idx = 2
    /\ fs["xmltv-temp.xml"].exists /\ Published(1).exists /\ Published(2).exists

\* C13: in a cycle the retry loops are entered in the order M3U, XmlTv; the
\* loop of XmlTv is entered, and its first fetch issued, only when no attempt
\* of M3U is in progress any more; one response at most is in flight, that of
\* the resource whose loop was entered last.
C13_InOrder ==
    /\ [](/\ order \in {<<>>, <<"M3U">>, <<"M3U", "XmlTv">>}
          /\ InResource => (order # <<>> /\ link_type = order[Len(order)])
          /\ resp # NoResp => pc \in {"create", "stream", "write"})
    /\ [][/\ (order' # order /\ order' # <<>>) =>
                 (pc = "refresh_loop" /\ resp = NoResp /\ pc' = "refresh"
                  /\ attempts' = 0)
          /\ (pc = "refresh" /\ attempts' = attempts + 1
                /\ link_type = "XmlTv") => order = <<"M3U", "XmlTv">>]_vars

C13_Witness ==
    /\ pc = "stream" /\ order = <<"M3U", "XmlTv">> /\ retry = 10
    /\ attempts = 2 /\ ~Published(1).exists

\* C14: when every attempt of M3U has failed, the cycle goes on to the
\* refresh of XmlTv, then returns, and the scheduler computes its next sleep;
\* once the daemon runs, no step ends the process.
C14_FailureGoesOn ==
    [][/\ (LoopDone /\ link_idx = 1 /\ status = "err") =>
              (pc' = "refresh_loop" /\ link_idx' = 2)
       /\ (pc = "refresh_loop" /\ link_idx = 2) =>
              (pc' = "refresh" /\ link_idx' = 2)
       /\ (LoopDone /\ link_idx = 2) => (pc' = "refresh_loop" /\ link_idx' = 3)
       /\ (pc = "refresh_loop" /\ link_idx = 3) => pc' = "loop"
       /\ pc = "loop" => pc' = "sleep"
       /\ pc \notin {"main", "exited"} => pc' # "exited"]_vars

C14_Witness ==
    pc = "sleep" /\ cycles = 1 /\ retry = 10 /\ ~Published(1).exists
        /\ Published(2).exists

\* C15: a resource gets at most retry+1 fetch attempts in a cycle, and exactly
\* retry+1 when every attempt failed.
C15_AttemptBudget ==
    /\ InResource => attempts <= retry + 1
    /\ (LoopDone /\ attempts > 0 /\ fails = attempts) => attempts = retry + 1

\* C16: one pause of 30 seconds separates two consecutive attempts of a
\* resource, whatever the attempt number; there is none before the first
\* attempt and none after the last.
C16_FixedPause ==
    /\ [](/\ InResource =>
                pauses = (IF attempts = 0 \/ pc \in {"refresh", "backoff"}
                          THEN attempts ELSE attempts - 1)
          /\ pc = "backoff" => pause = 30
          /\ pc # "backoff" => pause = 0)
    /\ [][pauses' = pauses + 1 =>
              (pc = "while" /\ status = "err" /\ attempts <= retry
               /\ pc' = "backoff")]_vars

C16_Witness == pc = "backoff" /\ pauses = 3 /\ attempts = 3 /\ pause = 30

\* C17: a temporary file exists only while a fetch attempt of its resource is
\* in progress.
C17_NoTempOutsideAttempt ==
    \A i \in Resources :
        fs[TmpFileName(LinkTypes[i])].exists =>
            (pc \in {"create", "stream", "write", "rename"} /\ link_idx = i)

\* C18: once the HTTP server task has finished the scheduler does not go on
\* alone: the only step left to the process is its exit.
C18_ServerEndEndsProcess ==
    [][server = "stopped" => (pc' = pc \/ pc' = "exited")]_vars

\* The clock reading at which a sleep of duration d begun at t returns.
WakeTime(t, d) ==
    LET n == t.n + d.nanos
        carry == IF n >= 1000000000 THEN 1 ELSE 0
    IN [s |-> (t.s + d.secs + carry) % 86400, n |-> n - carry * 1000000000]

\* C20: every scheduled cycle starts at 05:30:00 local time, after a sleep of
\* strictly positive duration, also when the clock read 05:30:00 when the
\* sleep was computed.
C20_OncePerDay ==
    pc = "sleep" =>
        /\ sleep_duration.secs > 0 \/ sleep_duration.nanos > 0
        /\ WakeTime(now, sleep_duration) = Time(5, 30, 0, 0)

\* The daemon is inside refresh_loop.
InCycle == pc = "refresh_loop" \/ InResource

\* C19: a cycle that has started completes (the daemon is back at the head of
\* its loop); from there the scheduler sleeps, and every sleep is followed by
\* a scheduled cycle of retry budget 10: sleeps and scheduled cycles recur
\* for ever.
C19_CyclesRecur ==
    /\ [](InCycle => <>(pc = "loop"))
    /\ [](pc = "loop" => <>(pc = "sleep"))
    /\ [](pc = "sleep" => <>(pc = "refresh_loop" /\ retry = 10))
    /\ [](pc \in {"main", "exited"} \/ ([]<>(pc = "sleep") /\ []<>InCycle))

C19_Witness ==
    pc = "refresh_loop" /\ cycles = MaxCycles /\ retry = 10 /\ pubBefore[1].exists

====
